---- MODULE Spec2Model ----
(***************************************************************************)
(* A model of src/src/icd11_retriever/ICD11_Retriever.py: the record       *)
(* normaliser (ICD11Processor), the hierarchy builder                      *)
(* (ICD11HierarchyBuilder) and the graph query layer (ICD11GraphBuilder).  *)
(*                                                                         *)
(* Python values are modelled as follows.                                  *)
(*   - A dict is a sequence of [k, v] pairs with pairwise distinct keys,   *)
(*     in insertion order (Python dicts iterate in insertion order).       *)
(*   - A value whose type the code does not fix (None, a str or a list)    *)
(*     is a tagged record: PyNone, PyStr(s), PyList(l).                    *)
(*   - A dict key that is not there is Missing.                            *)
(*   - In the hierarchy builder, which looks inside strings, a str is the  *)
(*     sequence of its characters. Elsewhere a str is a TLA+ string.       *)
(***************************************************************************)
EXTENDS Naturals, Sequences, FiniteSets, TLC

VARIABLES
    data,             \* ICD11Processor.data
    Formatted_data,   \* ICD11Processor.Formatted_data
    procPc,           \* where the run() pipeline of the processor stands
    outFile,          \* the JSON document ICD11Processor.save() wrote
    ICD11,            \* ICD11HierarchyBuilder.ICD11
    UUIDs,            \* ICD11HierarchyBuilder.UUIDs
    Data,             \* ICD11HierarchyBuilder.Data
    hierPc,           \* "new", or "built" once ICD11HierarchyBuilder.build() has run
    ICD11_Hierarchy,  \* ICD11GraphBuilder.ICD11_Hierarchy
    G,                \* ICD11GraphBuilder.G
    call,             \* the last ICD11GraphBuilder method call and its outcome
    everBuilt         \* history: ICD11GraphBuilder.build() has run

vars == <<data, Formatted_data, procPc, outFile, ICD11, UUIDs, Data, hierPc,
          ICD11_Hierarchy, G, call, everBuilt>>

procVars == <<data, Formatted_data, procPc, outFile>>
hierVars == <<ICD11, UUIDs, Data, hierPc>>
graphVars == <<ICD11_Hierarchy, G, call, everBuilt>>

(***************************************************************************)
(* Bounds of the model.                                                    *)
(***************************************************************************)
MaxEntries == 2    \* raw entries in the processor's input document
MaxRefs == 2       \* references in one parent/child list
MaxEdges == 3      \* child references in one HierarchyNode mapping

(***************************************************************************)
(* Python values.                                                          *)
(***************************************************************************)
Missing == [t |-> "missing"]
PyNone == [t |-> "None"]
PyStr(s) == [t |-> "str", v |-> s]
PyList(l) == [t |-> "list", v |-> l]

\* bool(x) for None, a str (a TLA+ string) or a list.
Truthy(x) ==
    CASE x.t = "None" -> FALSE
      [] x.t = "str" -> x.v # ""
      [] x.t = "list" -> Len(x.v) > 0

\* d.get(k) of a dict held as a record of optional fields: None when missing.
Get(d, k) == IF d[k] = Missing THEN PyNone ELSE d[k]

\* d.get(k, default).
GetOr(d, k, default) == IF d[k] = Missing THEN default ELSE d[k]

\* The sequences over S of length at most n.
SeqsUpTo(S, n) == UNION {[1..k -> S] : k \in 0..n}

KeySet(d) == {d[i].k : i \in 1..Len(d)}

HasKey(d, key) == \E i \in 1..Len(d) : d[i].k = key

\* d[key], for a key of d.
Lookup(d, key) == d[CHOOSE i \in 1..Len(d) : d[i].k = key].v

\* d[key] = value: an existing key keeps its place, a new key goes last.
DictSet(d, key, value) ==
    IF HasKey(d, key)
    THEN [i \in 1..Len(d) |-> IF d[i].k = key THEN [k |-> key, v |-> value] ELSE d[i]]
    ELSE Append(d, [k |-> key, v |-> value])

\* The key orders of the dicts with at most n keys, all from K.
KeyOrders(K, n) ==
    {q \in SeqsUpTo(K, n) : \A i, j \in 1..Len(q) : q[i] = q[j] => i = j}

\* The dict with keys q, in that order, and values v[1], v[2], ...
DictOf(q, v) == [i \in 1..Len(q) |-> [k |-> q[i], v |-> v[i]]]

(***************************************************************************)
(* ICD11Processor                                                          *)
(***************************************************************************)

\* The long identifiers of the input document.
LongIds == {"http://x/A", "http://x/B", "http://x/C"}

\* The values of a raw entry's '@id': no such key, empty, or a long identifier.
RawIds == {Missing, PyStr(""), PyStr("http://x/A"), PyStr("http://x/B")}

\* A nested {'@value': ...} object, with or without its '@value'.
NoValue == [value |-> Missing]
Value(s) == [value |-> PyStr(s)]

\* The shapes of the rest of a raw entry: nested objects present or not,
\* with or without their '@value', synonyms with and without labels.
RawProfiles ==
    { [title |-> Missing, definition |-> Missing, synonym |-> Missing,
       parent |-> Missing, child |-> Missing],
      [title |-> Value("Root"), definition |-> NoValue, synonym |-> PyList(<<>>),
       parent |-> Missing, child |-> PyList(<<"http://x/B">>)],
      [title |-> Value("Leaf"), definition |-> Value("a leaf"),
       synonym |-> PyList(<<[label |-> Value("s1")], [label |-> Missing],
                            [label |-> NoValue], [label |-> Value("")],
                            [label |-> Value("s2")]>>),
       parent |-> PyList(<<"http://x/A">>), child |-> Missing],
      [title |-> NoValue, definition |-> Value(""), synonym |-> PyNone,
       parent |-> PyStr("http://x/A"), child |-> PyStr("")],
      [title |-> Value(""), definition |-> Missing,
       synonym |-> PyList(<<[label |-> Value("s1")]>>),
       parent |-> PyList(<<>>), child |-> PyList(<<"http://x/A", "http://x/B">>)] }

RawEntries ==
    {[id |-> i, title |-> p.title, definition |-> p.definition,
      synonym |-> p.synonym, parent |-> p.parent, child |-> p.child] :
        i \in RawIds, p \in RawProfiles}

\* ICD11_values.get(field, {}).get('@value', '')
NestedValue(obj) ==
    IF obj = Missing THEN "" ELSE IF obj.value = Missing THEN "" ELSE obj.value.v

\* [syn.label.@value for syn in syns if syn.label.@value], in order.
RECURSIVE SynonymLabels(_)
SynonymLabels(syns) ==
    IF syns = <<>> THEN <<>>
    ELSE LET lab == NestedValue(Head(syns).label)
         IN  IF lab # "" THEN <<lab>> \o SynonymLabels(Tail(syns))
             ELSE SynonymLabels(Tail(syns))

extract_values(ICD11_values) ==
    [id |-> Get(ICD11_values, "id"),
     parent |-> GetOr(ICD11_values, "parent", PyStr("")),
     child |-> GetOr(ICD11_values, "child", PyStr("")),
     title |-> NestedValue(ICD11_values.title),
     def |-> NestedValue(ICD11_values.definition),
     synonyms |->
        LET syns == Get(ICD11_values, "synonym")
        IN  IF Truthy(syns) THEN SynonymLabels(syns.v) ELSE <<>>]

\* process() storing each record under the raw key k instead of entry_id.
RECURSIVE ProcessLoopKeyedByRawKey(_, _)
ProcessLoopKeyedByRawKey(d, n) ==
    IF n = 0 THEN <<>>
    ELSE LET acc == ProcessLoopKeyedByRawKey(d, n - 1)
             ICD11_subset == extract_values(d[n].v)
         IN  IF Truthy(ICD11_subset.id) THEN DictSet(acc, d[n].k, ICD11_subset)
             ELSE acc

\* process() testing `entry_id is not None` instead of `if entry_id`.
RECURSIVE ProcessLoopIdNotNone(_, _)
ProcessLoopIdNotNone(d, n) ==
    IF n = 0 THEN <<>>
    ELSE LET acc == ProcessLoopIdNotNone(d, n - 1)
             ICD11_subset == extract_values(d[n].v)
         IN  IF ICD11_subset.id # PyNone
             THEN DictSet(acc, ICD11_subset.id.v, ICD11_subset)
             ELSE acc

\* The loop of process() over the first n items of d, from an empty dict.
RECURSIVE ProcessLoop(_, _)
ProcessLoop(d, n) ==
    IF n = 0 THEN <<>>
    ELSE LET acc == ProcessLoop(d, n - 1)
             ICD11_subset == extract_values(d[n].v)
             entry_id == ICD11_subset.id
         IN  IF Truthy(entry_id) THEN DictSet(acc, entry_id.v, ICD11_subset)
             ELSE acc

NoFile == [written |-> FALSE]

ProcInit ==
    /\ data = <<>>
    /\ Formatted_data = <<>>
    /\ procPc = "new"
    /\ outFile = NoFile

\* load_data(): the document read replaces data. run() loads once.
load_data ==
    /\ procPc = "new"
    /\ \E q \in KeyOrders(LongIds, MaxEntries) :
          \E v \in [1..Len(q) -> RawEntries] : data' = DictOf(q, v)
    /\ procPc' = "loaded"
    /\ UNCHANGED <<Formatted_data, outFile>>

\* process(): also callable before load_data(), on the empty data.
process ==
    /\ procPc \in {"new", "loaded"}
    /\ Formatted_data' = ProcessLoop(data, Len(data))
    /\ procPc' = "processed"
    /\ UNCHANGED <<data, outFile>>

\* save(): json.dump(self.Formatted_data, file)
save ==
    /\ procPc = "processed"
    /\ outFile' = [written |-> TRUE, content |-> Formatted_data]
    /\ procPc' = "saved"
    /\ UNCHANGED <<data, Formatted_data>>

(***************************************************************************)
(* ICD11HierarchyBuilder. Here a str is the sequence of its characters,    *)
(* so that PyStr(<<>>) is '' and iterating a str yields its characters.    *)
(***************************************************************************)

\* The long identifiers keying the normalized records: both end in A.
HierKeys == {<<"x", "/", "A">>, <<"A">>}

\* The references a parent or child field holds.
Refs == {<<"x", "/", "y", "/", "B">>, <<"C">>}

\* The shapes of a parent or child field: None, '', one reference string, or a
\* list of at most MaxRefs reference strings.
RefFields ==
    {PyNone, PyStr(<<>>)} \cup {PyStr(r) : r \in Refs}
        \cup {PyList(l) : l \in SeqsUpTo(Refs, MaxRefs)}

\* The normalized record stored under long identifier k, with parent field p
\* and child field c.
NormalizedRecord(k, p, c) ==
    [id |-> PyStr(k), title |-> <<"t">> \o k, def |-> <<"d">> \o k,
     synonyms |-> <<k>>, parent |-> p, child |-> c]

\* The place of the last '/' of url, 0 when it has none.
RECURSIVE LastSlash(_, _)
LastSlash(url, i) ==
    IF i = 0 THEN 0 ELSE IF url[i] = "/" THEN i ELSE LastSlash(url, i - 1)

\* The place of the first '/' of url from place i on, 0 when there is none.
RECURSIVE FirstSlash(_, _)
FirstSlash(url, i) ==
    IF i > Len(url) THEN 0 ELSE IF url[i] = "/" THEN i ELSE FirstSlash(url, i + 1)

\* extract_uid with split in place of rsplit: what follows the first '/'.
extract_uid_split(url) == SubSeq(url, FirstSlash(url, 1) + 1, Len(url))

\* url.rsplit('/', 1)[-1]
extract_uid(url) == SubSeq(url, LastSlash(url, Len(url)) + 1, Len(url))

\* `for url in urls`: a list yields its items, a str its characters.
Iterate(urls) ==
    IF urls.t = "str" THEN [i \in 1..Len(urls.v) |-> <<urls.v[i]>>] ELSE urls.v

\* [self.extract_uid(url) for url in urls] if urls else []
extract_uids(urls) ==
    IF urls.t # "None" /\ Len(urls.v) > 0
    THEN LET it == Iterate(urls) IN [i \in 1..Len(it) |-> extract_uid(it[i])]
    ELSE <<>>

\* The loop of build() over the first n items of d, onto the Data it finds.
RECURSIVE BuildData(_, _, _)
BuildData(d, n, acc) ==
    IF n = 0 THEN acc
    ELSE LET v == d[n].v
             uid == extract_uid(d[n].k)
         IN  DictSet(BuildData(d, n - 1, acc), uid,
                     [title |-> v.title, def |-> v.def, synonyms |-> v.synonyms,
                      parents |-> extract_uids(v.parent),
                      children |-> extract_uids(v.child)])

HierInit ==
    /\ \E q \in KeyOrders(HierKeys, Cardinality(HierKeys)) :
          \E p \in [1..Len(q) -> RefFields] :
              \E c \in [1..Len(q) -> RefFields] :
                  ICD11 = DictOf(q, [i \in 1..Len(q) |->
                                        NormalizedRecord(q[i], p[i], c[i])])
    /\ UUIDs = {}
    /\ Data = <<>>
    /\ hierPc = "new"

\* ICD11HierarchyBuilder.build()
HierBuild ==
    /\ Data' = BuildData(ICD11, Len(ICD11), Data)
    /\ UUIDs' = UUIDs \cup {extract_uid(ICD11[i].k) : i \in 1..Len(ICD11)}
    /\ hierPc' = "built"
    /\ UNCHANGED ICD11

HierIdle ==
    /\ ICD11 = <<>>
    /\ UUIDs = {}
    /\ Data = <<>>
    /\ hierPc = "new"

(***************************************************************************)
(* ICD11GraphBuilder. The networkx DiGraph is held as its node list in     *)
(* insertion order (the order G.nodes() iterates in), the attribute dict   *)
(* of each node, and the successor list of each node in insertion order    *)
(* (the order G.successors() iterates in).                                 *)
(***************************************************************************)

\* The short identifiers, in the order the mapping lists those it has as keys.
NodeIds == <<"A", "B", "C">>

IdSet == {NodeIds[i] : i \in 1..Len(NodeIds)}

\* The titles of the HierarchyNodes: the empty title, and one two nodes can share.
Titles == {"", "T"}

\* The titles queried: those, and one no HierarchyNode has.
QueryTitles == Titles \cup {"Z"}

\* The def and synonyms of the HierarchyNode of each short identifier.
DefOf(id) == CASE id = "A" -> "def A" [] id = "B" -> "def B" [] OTHER -> ""

SynonymsOf(id) ==
    CASE id = "A" -> <<"syn A">> [] id = "B" -> <<"syn B1", "syn B2">> [] OTHER -> <<>>

\* The parents lists of a mapping: none, or one that matches no children list.
ParentLists == {<<>>, <<"C">>}

\* The children lists of n nodes, with at most e child references in all
\* (repeats and self references included).
RECURSIVE ChildrenLists(_, _)
ChildrenLists(n, e) ==
    IF n = 0 THEN {<<>>}
    ELSE UNION {{Append(cs, c) : cs \in ChildrenLists(n - 1, e - Len(c))} :
                c \in SeqsUpTo(IdSet, e)}

\* The HierarchyNode of short identifier id.
HierarchyNode(id, title, parents, children) ==
    [title |-> title, def |-> DefOf(id), synonyms |-> SynonymsOf(id),
     parents |-> parents, children |-> children]

\* nx.DiGraph()
EmptyGraph == [t |-> "graph", nodes |-> <<>>, attrs |-> <<>>, succ |-> <<>>]

\* The attribute dict of a node added by add_edge only.
NoAttrs == [has |-> FALSE, title |-> "", definition |-> "", synonyms |-> <<>>]

HasNode(g, n) == \E i \in 1..Len(g.nodes) : g.nodes[i] = n

InSeq(x, q) == \E i \in 1..Len(q) : q[i] = x

\* G.add_node(n, title=, definition=, synonyms=): a new node goes last, a node
\* already there keeps its place and edges and takes the attributes.
add_node(g, n, title, definition, synonyms) ==
    LET attr == [has |-> TRUE, title |-> title, definition |-> definition,
                 synonyms |-> synonyms]
    IN  IF HasNode(g, n)
        THEN [g EXCEPT !.attrs = DictSet(g.attrs, n, attr)]
        ELSE [g EXCEPT !.nodes = Append(g.nodes, n),
                       !.attrs = DictSet(g.attrs, n, attr),
                       !.succ = DictSet(g.succ, n, <<>>)]

\* What add_edge does to an end node: add it, with no attributes, if not there.
Touch(g, n) ==
    IF HasNode(g, n) THEN g
    ELSE [g EXCEPT !.nodes = Append(g.nodes, n),
                   !.attrs = DictSet(g.attrs, n, NoAttrs),
                   !.succ = DictSet(g.succ, n, <<>>)]

\* add_edge that lists v among u's successors once more each time it is added.
add_edge_repeating(g, u, v) ==
    LET g2 == Touch(Touch(g, u), v)
    IN  [g2 EXCEPT !.succ = DictSet(g2.succ, u, Append(Lookup(g2.succ, u), v))]

\* G.add_edge(u, v): an edge already there keeps its place.
add_edge(g, u, v) ==
    LET g2 == Touch(Touch(g, u), v)
        out == Lookup(g2.succ, u)
    IN  IF InSeq(v, out) THEN g2
        ELSE [g2 EXCEPT !.succ = DictSet(g2.succ, u, Append(out, v))]

\* for child_id in children[1..n]: G.add_edge(node_id, child_id)
RECURSIVE AddEdges(_, _, _, _)
AddEdges(g, node_id, children, n) ==
    IF n = 0 THEN g
    ELSE add_edge(AddEdges(g, node_id, children, n - 1), node_id, children[n])

\* build() that also draws an edge from each of a node's parents to the node.
RECURSIVE BuildGraphWithParents(_, _)
BuildGraphWithParents(h, n) ==
    IF n = 0 THEN EmptyGraph
    ELSE LET node_id == h[n].k
             d == h[n].v
             g1 == add_node(BuildGraphWithParents(h, n - 1), node_id,
                            d.title, d.def, d.synonyms)
             g2 == AddEdges(g1, node_id, d.children, Len(d.children))
         IN  IF d.parents = <<>> THEN g2 ELSE add_edge(g2, d.parents[1], node_id)

\* The loop of build() over the first n items of the mapping h.
RECURSIVE BuildGraph(_, _)
BuildGraph(h, n) ==
    IF n = 0 THEN EmptyGraph
    ELSE LET node_id == h[n].k
             d == h[n].v
             g1 == add_node(BuildGraph(h, n - 1), node_id, d.title, d.def, d.synonyms)
         IN  AddEdges(g1, node_id, d.children, Len(d.children))

\* self.G.nodes[n].get('title', '')
NodeTitle(g, n) == LET a == Lookup(g.attrs, n) IN IF a.has THEN a.title ELSE ""

\* list(self.G.successors(n))
Successors(g, n) == Lookup(g.succ, n)

SuccessorSet(g, n) == {Successors(g, n)[i] : i \in 1..Len(Successors(g, n))}

\* The entry of children_info for child_id: .get(key, 'N/A') and .get('synonyms', []).
ChildInfo(g, child_id) ==
    LET a == Lookup(g.attrs, child_id)
    IN  [id |-> child_id,
         title |-> IF a.has THEN a.title ELSE "N/A",
         definition |-> IF a.has THEN a.definition ELSE "N/A",
         synonyms |-> IF a.has THEN a.synonyms ELSE <<>>]

\* The empty dict `results = {}`.
EmptyDict == <<>>

IsEmptyDict(r) == DOMAIN r = {}

ChildrenResult(g, node_id) ==
    LET out == Successors(g, node_id)
    IN  [parent_id |-> node_id,
         parent_title |-> NodeTitle(g, node_id),
         children |-> [i \in 1..Len(out) |-> ChildInfo(g, out[i])]]

\* The scan of get_children_with_info over the first n nodes: each match
\* overwrites results, so the last match stands.
RECURSIVE ScanChildren(_, _, _)
ScanChildren(g, target_title, n) ==
    IF n = 0 THEN EmptyDict
    ELSE IF NodeTitle(g, g.nodes[n]) = target_title
         THEN ChildrenResult(g, g.nodes[n])
         ELSE ScanChildren(g, target_title, n - 1)

\* The breadth-first search of nx.descendants: the nodes reached from the
\* frontier, added to those visited.
RECURSIVE Bfs(_, _, _)
Bfs(g, visited, frontier) ==
    IF frontier = {} THEN visited
    ELSE LET next == UNION {SuccessorSet(g, n) : n \in frontier} \ visited
         IN  Bfs(g, visited \cup next, next)

\* The nodes reached from the successors of source, source itself included
\* when an edge leads back to it.
descendants_keeping_source(g, source) ==
    LET first == SuccessorSet(g, source) IN Bfs(g, first, first)

\* nx.descendants(G, source): the nodes reachable from source, without source.
descendants(g, source) == Bfs(g, {source}, {source}) \ {source}

\* all_descendants is held as the set it is: list(all_descendants) has the
\* set's elements in no stated order.
DescendantsResult(g, node_id) ==
    LET all_descendants == descendants(g, node_id)
        direct_children == Successors(g, node_id)
    IN  [node_id |-> node_id,
         title |-> NodeTitle(g, node_id),
         direct_children |-> direct_children,
         all_descendants |-> all_descendants,
         direct_children_count |-> Len(direct_children),
         total_descendants_count |-> Cardinality(all_descendants)]

RECURSIVE ScanDescendants(_, _, _)
ScanDescendants(g, target_title, n) ==
    IF n = 0 THEN EmptyDict
    ELSE IF NodeTitle(g, g.nodes[n]) = target_title
         THEN DescendantsResult(g, g.nodes[n])
         ELSE ScanDescendants(g, target_title, n - 1)

\* The outcome of a query: the ValueError of an unbuilt graph, or the dict returned.
Raised(op, target_title) ==
    [op |-> op, target |-> target_title, raised |-> TRUE]

Returned(op, target_title, results) ==
    [op |-> op, target |-> target_title, raised |-> FALSE, results |-> results]

\* A query that answers an unbuilt graph with the empty dict.
QueryChildrenNoGuard(target_title) ==
    IF G = PyNone THEN Returned("get_children_with_info", target_title, EmptyDict)
    ELSE Returned("get_children_with_info", target_title,
                  ScanChildren(G, target_title, Len(G.nodes)))

QueryChildren(target_title) ==
    IF G = PyNone THEN Raised("get_children_with_info", target_title)
    ELSE Returned("get_children_with_info", target_title,
                  ScanChildren(G, target_title, Len(G.nodes)))

QueryDescendants(target_title) ==
    IF G = PyNone THEN Raised("get_all_descendants_by_title", target_title)
    ELSE Returned("get_all_descendants_by_title", target_title,
                  ScanDescendants(G, target_title, Len(G.nodes)))

GraphInit ==
    /\ \E n \in 0..Len(NodeIds) :
          \E cs \in ChildrenLists(n, MaxEdges) :
              \E ts \in [1..n -> Titles] :
                  \E p \in ParentLists :
                      ICD11_Hierarchy =
                          [i \in 1..n |->
                              [k |-> NodeIds[i],
                               v |-> HierarchyNode(NodeIds[i], ts[i], p, cs[i])]]
    /\ G = PyNone
    /\ call = [op |-> "none"]
    /\ everBuilt = FALSE

\* ICD11GraphBuilder.build()
build ==
    /\ G' = BuildGraph(ICD11_Hierarchy, Len(ICD11_Hierarchy))
    /\ call' = [op |-> "build"]
    /\ everBuilt' = TRUE
    /\ UNCHANGED ICD11_Hierarchy

\* ICD11GraphBuilder.get_children_with_info(target_title)
get_children_with_info ==
    /\ \E target_title \in QueryTitles : call' = QueryChildren(target_title)
    /\ UNCHANGED <<ICD11_Hierarchy, G, everBuilt>>

\* ICD11GraphBuilder.get_all_descendants_by_title(target_title)
get_all_descendants_by_title ==
    /\ \E target_title \in QueryTitles : call' = QueryDescendants(target_title)
    /\ UNCHANGED <<ICD11_Hierarchy, G, everBuilt>>

GraphIdle ==
    /\ ICD11_Hierarchy = <<>>
    /\ G = PyNone
    /\ call = [op |-> "none"]
    /\ everBuilt = FALSE

ProcIdle == ProcInit

InitProcessor == ProcInit /\ HierIdle /\ GraphIdle

NextProcessor ==
    \/ load_data /\ UNCHANGED <<hierVars, graphVars>>
    \/ process /\ UNCHANGED <<hierVars, graphVars>>
    \/ save /\ UNCHANGED <<hierVars, graphVars>>

\* ICD11Processor alone.
SpecProcessor == InitProcessor /\ [][NextProcessor]_vars

InitHierarchy == ProcIdle /\ HierInit /\ GraphIdle

NextHierarchy == HierBuild /\ UNCHANGED <<procVars, graphVars>>

\* ICD11HierarchyBuilder alone.
SpecHierarchy == InitHierarchy /\ [][NextHierarchy]_vars

Init == ProcIdle /\ HierIdle /\ GraphInit

Next ==
    \/ build /\ UNCHANGED <<procVars, hierVars>>
    \/ get_children_with_info /\ UNCHANGED <<procVars, hierVars>>
    \/ get_all_descendants_by_title /\ UNCHANGED <<procVars, hierVars>>

\* ICD11GraphBuilder alone.
Spec == Init /\ [][Next]_vars

(***************************************************************************)
(* Claims about ICD11HierarchyBuilder.                                     *)
(***************************************************************************)

\* The short identifier of the reference s, stated without rsplit: the suffix
\* of s that holds no '/' and is all of s or comes right after a '/'.
ShortId(s) ==
    CHOOSE t \in {SubSeq(s, i, Len(s)) : i \in 1..(Len(s) + 1)} :
        /\ \A j \in 1..Len(t) : t[j] # "/"
        /\ Len(t) = Len(s) \/ s[Len(s) - Len(t)] = "/"

\* The references of a parent or child field, one per reference: none for an
\* absent or empty field, the string for a single reference, the items of a list.
References(field) ==
    CASE field.t = "None" -> <<>>
      [] field.t = "str" -> IF field.v = <<>> THEN <<>> ELSE <<field.v>>
      [] field.t = "list" -> field.v

ShortIds(field) ==
    LET refs == References(field) IN [i \in 1..Len(refs) |-> ShortId(refs[i])]

\* What build() makes of a single non-empty reference string: one entry per
\* character, the character itself, or '' for a '/'.
PerCharacter(str) ==
    [i \in 1..Len(str) |-> IF str[i] = "/" THEN <<>> ELSE <<str[i]>>]

\* The last record of ICD11, in input order, whose key has short identifier uid.
LastRecordFor(uid) ==
    CHOOSE i \in 1..Len(ICD11) :
        /\ ShortId(ICD11[i].k) = uid
        /\ \A j \in 1..Len(ICD11) : ShortId(ICD11[j].k) = uid => j <= i

C1_Expected(field) ==
    IF field.t = "str" /\ field.v # <<>> THEN PerCharacter(field.v)
    ELSE ShortIds(field)

Processed == procPc \in {"processed", "saved"}

\* The raw entries (by position in data) whose '@id' key is there.
WithId == {i \in 1..Len(data) : data[i].v.id # Missing}

\* The raw entries whose '@id' is there and is not the empty string.
WithNonEmptyId == {i \in WithId : data[i].v.id # PyStr("")}

\* The last raw entry, in input order, whose '@id' is the string id.
LastWithId(id) ==
    CHOOSE i \in WithNonEmptyId :
        /\ data[i].v.id.v = id
        /\ \A j \in WithNonEmptyId : data[j].v.id.v = id => j <= i

(***************************************************************************)
(* C2 as stated: after process(), every normalized record is stored under  *)
(* the raw key of the entry it comes from and its id is that raw key, and  *)
(* every raw entry (also one with no '@id', only title/parent/child) has   *)
(* its record under its raw key.                                           *)
(***************************************************************************)
C2_IdIsRawKey ==
    Processed =>
        /\ \A i \in 1..Len(data) :
              /\ HasKey(Formatted_data, data[i].k)
              /\ Lookup(Formatted_data, data[i].k).id = PyStr(data[i].k)
        /\ KeySet(Formatted_data) \subseteq KeySet(data)

(***************************************************************************)
(* C2 amended: after process(), every normalized record's id is the '@id'  *)
(* value of a raw entry, whatever raw key that entry appears under, and    *)
(* the record is stored under that '@id' value; a document none of whose   *)
(* entries has an '@id' yields no normalized record.                       *)
(***************************************************************************)
C2_IdIsCanonicalId ==
    Processed =>
        /\ \A j \in 1..Len(Formatted_data) :
              /\ Formatted_data[j].v.id = PyStr(Formatted_data[j].k)
              /\ \E i \in 1..Len(data) : data[i].v.id = Formatted_data[j].v.id
        /\ (WithId = {} => Formatted_data = <<>>)

\* process() has stored a record under a key that is no raw key of the input,
\* and a raw entry that has an '@id' has no record under its raw key.
C2_Witness ==
    /\ Processed
    /\ \E j \in 1..Len(Formatted_data) : Formatted_data[j].k \notin KeySet(data)
    /\ \E i \in WithNonEmptyId : ~HasKey(Formatted_data, data[i].k)

(***************************************************************************)
(* C3 as stated: after process(), a raw entry has no record of its own     *)
(* exactly when its '@id' is missing, so the output has as many records as *)
(* there are raw entries with an '@id'.                                    *)
(***************************************************************************)
C3_OneRecordPerEntryWithId ==
    Processed => Len(Formatted_data) = Cardinality(WithId)

(***************************************************************************)
(* C3 amended: after process(), the output holds exactly one record for    *)
(* each distinct non-empty '@id' value among the raw entries: the record   *)
(* of the last raw entry carrying it, with id equal to that value. A raw   *)
(* entry whose '@id' is missing or empty has no record, so the number of   *)
(* records is the number of distinct non-empty '@id' values.               *)
(***************************************************************************)
C3_OneRecordPerDistinctId ==
    Processed =>
        LET ids == {data[i].v.id.v : i \in WithNonEmptyId}
        IN  /\ KeySet(Formatted_data) = ids
            /\ Len(Formatted_data) = Cardinality(ids)
            /\ \A j \in 1..Len(Formatted_data) :
                  LET src == data[LastWithId(Formatted_data[j].k)].v
                      rec == Formatted_data[j].v
                  IN  /\ rec.id = src.id
                      /\ rec.title = NestedValue(src.title)
                      /\ rec.parent = GetOr(src, "parent", PyStr(""))
                      /\ rec.child = GetOr(src, "child", PyStr(""))

\* process() ran on two raw entries with the same non-empty '@id' and different
\* titles, and kept one record for the two.
C3_Witness ==
    /\ Processed
    /\ \E i, j \in WithNonEmptyId :
          /\ i < j
          /\ data[i].v.id = data[j].v.id
          /\ data[i].v.title # data[j].v.title
    /\ Len(Formatted_data) = 1

(***************************************************************************)
(* What the claims about ICD11GraphBuilder speak of.                       *)
(***************************************************************************)
Built == G # PyNone

IsQuery == call.op \in {"get_children_with_info", "get_all_descendants_by_title"}

\* A query returned, rather than raised.
Answered(op) == call.op = op /\ ~call.raised

\* A query returned a dict that is not empty.
Found(op) == Answered(op) /\ ~IsEmptyDict(call.results)

NodeSet(g) == {g.nodes[i] : i \in 1..Len(g.nodes)}

\* The directed edges of the graph.
Edges(g) == {e \in NodeSet(g) \X NodeSet(g) : InSeq(e[2], Successors(g, e[1]))}

\* The children list of short identifier n in the mapping: none if n is no key.
ChildrenOf(n) ==
    IF HasKey(ICD11_Hierarchy, n) THEN Lookup(ICD11_Hierarchy, n).children ELSE <<>>

\* The pairs (key, child) of the mapping's children lists.
ChildPairs ==
    {e \in IdSet \X IdSet : InSeq(e[2], ChildrenOf(e[1]))}

\* The items of q in the order of their first occurrence.
RECURSIVE FirstOccurrences(_)
FirstOccurrences(q) ==
    IF q = <<>> THEN <<>>
    ELSE LET before == FirstOccurrences(SubSeq(q, 1, Len(q) - 1))
         IN  IF InSeq(q[Len(q)], before) THEN before ELSE Append(before, q[Len(q)])

\* m is reached from n along one or more edges of g.
Reaches(g, n, m) ==
    \E k \in 1..Cardinality(NodeSet(g)) :
        \E path \in [1..(k + 1) -> NodeSet(g)] :
            /\ path[1] = n
            /\ path[k + 1] = m
            /\ \A i \in 1..k : <<path[i], path[i + 1]>> \in Edges(g)

\* The graph nodes (by place in iteration order) that carry a title attribute
\* equal to title.
Titled(g, title) ==
    {i \in 1..Len(g.nodes) :
        LET a == Lookup(g.attrs, g.nodes[i]) IN a.has /\ a.title = title}

Last(S) == CHOOSE i \in S : \A j \in S : j <= i

(***************************************************************************)
(* C4: a query made before the first build() raises the error of the       *)
(* unbuilt graph and returns nothing; a query made once build() has run    *)
(* does not raise it.                                                      *)
(***************************************************************************)
C4_RaisesExactlyBeforeBuild ==
    IsQuery => (call.raised <=> ~everBuilt)

\* get_children_with_info was called before any build() and raised.
C4_Witness ==
    /\ call.op = "get_children_with_info"
    /\ ~everBuilt
    /\ call.raised
    /\ ICD11_Hierarchy # <<>>

(***************************************************************************)
(* C5: after build(), the graph has the edge u -> v exactly when u is a    *)
(* key of the mapping and v is in u's children list, whatever the parents  *)
(* lists hold; its nodes are the keys and the ids in children lists; an    *)
(* empty mapping gives no node and no edge.                                *)
(***************************************************************************)
C5_EdgesAreChildren ==
    Built =>
        /\ Edges(G) = ChildPairs
        /\ NodeSet(G) = KeySet(ICD11_Hierarchy) \cup {e[2] : e \in ChildPairs}
        /\ Len(G.nodes) = Cardinality(NodeSet(G))
        /\ (ICD11_Hierarchy = <<>> => G.nodes = <<>> /\ Edges(G) = {})

\* build() ran on a mapping with edges whose nodes name a parent that none of
\* the children lists leads from.
C5_Witness ==
    /\ Built
    /\ Edges(G) # {}
    /\ \E i \in 1..Len(ICD11_Hierarchy) :
          /\ ICD11_Hierarchy[i].v.parents = <<"C">>
          /\ <<"C", ICD11_Hierarchy[i].k>> \notin Edges(G)

(***************************************************************************)
(* C6: a non-empty result of get_all_descendants_by_title for node n has   *)
(* all_descendants = the nodes other than n reached from n along one or    *)
(* more edges (also when a cycle leads back to n), direct_children = n's   *)
(* successors in the order their edges were first added, and the two       *)
(* counts equal to the sizes of those two collections.                     *)
(***************************************************************************)
C6_DescendantsAreReachable ==
    Found("get_all_descendants_by_title") =>
        LET r == call.results
            n == r.node_id
        IN  /\ n \in NodeSet(G)
            /\ r.all_descendants = {m \in NodeSet(G) \ {n} : Reaches(G, n, m)}
            /\ r.direct_children = FirstOccurrences(ChildrenOf(n))
            /\ r.direct_children_count = Len(r.direct_children)
            /\ r.total_descendants_count = Cardinality(r.all_descendants)

\* The query found a node that lies on a cycle and has a descendant that is
\* not one of its direct children.
C6_Witness ==
    /\ Found("get_all_descendants_by_title")
    /\ Reaches(G, call.results.node_id, call.results.node_id)
    /\ \E m \in call.results.all_descendants : ~InSeq(m, call.results.direct_children)

(***************************************************************************)
(* C7 as stated: when one or more graph nodes carry a title attribute      *)
(* equal to target_title, get_children_with_info describes the last of     *)
(* them in graph iteration order: parent_id is that node, parent_title is  *)
(* target_title, and children has one entry per direct successor, with the *)
(* successor's id and, when the successor is a key of the mapping, its     *)
(* HierarchyNode's title, def and synonyms.                                *)
(***************************************************************************)
C7_LastTitledNode ==
    (Answered("get_children_with_info") /\ Titled(G, call.target) # {}) =>
        LET r == call.results
            n == G.nodes[Last(Titled(G, call.target))]
            out == FirstOccurrences(ChildrenOf(n))
        IN  /\ ~IsEmptyDict(r)
            /\ r.parent_id = n
            /\ r.parent_title = call.target
            /\ Len(r.children) = Len(out)
            /\ \A i \in 1..Len(out) :
                  /\ r.children[i].id = out[i]
                  /\ HasKey(ICD11_Hierarchy, out[i]) =>
                        LET h == Lookup(ICD11_Hierarchy, out[i])
                        IN  /\ r.children[i].title = h.title
                            /\ r.children[i].definition = h.def
                            /\ r.children[i].synonyms = h.synonyms

(***************************************************************************)
(* C8 as stated: on a built graph, a query for a title that no node        *)
(* carries returns the empty dict (and does not raise).                    *)
(***************************************************************************)
C8_NoMatchIsEmpty ==
    (IsQuery /\ Built /\ Titled(G, call.target) = {}) =>
        /\ ~call.raised
        /\ IsEmptyDict(call.results)

(***************************************************************************)
(* C9 as stated: in a non-empty result of get_all_descendants_by_title,    *)
(* every element of direct_children is in all_descendants, so that         *)
(* direct_children_count <= total_descendants_count, also when a node      *)
(* lists itself among its children or lies on a cycle.                     *)
(***************************************************************************)
C9_ChildrenAreDescendants ==
    Found("get_all_descendants_by_title") =>
        LET r == call.results
        IN  /\ \A i \in 1..Len(r.direct_children) :
                  r.direct_children[i] \in r.all_descendants
            /\ r.direct_children_count <= r.total_descendants_count

(***************************************************************************)
(* C9 amended: in a non-empty result of get_all_descendants_by_title,      *)
(* every element of direct_children other than the matched node itself is  *)
(* in all_descendants; direct_children_count <= total_descendants_count    *)
(* when the matched node is not among its own children, and                *)
(* direct_children_count <= total_descendants_count + 1 when it is.        *)
(***************************************************************************)
C9_ChildrenButSelfAreDescendants ==
    Found("get_all_descendants_by_title") =>
        LET r == call.results
            self == IF InSeq(r.node_id, r.direct_children) THEN 1 ELSE 0
        IN  /\ \A i \in 1..Len(r.direct_children) :
                  r.direct_children[i] # r.node_id =>
                      r.direct_children[i] \in r.all_descendants
            /\ r.node_id \notin r.all_descendants
            /\ r.direct_children_count <= r.total_descendants_count + self

\* The query found a node that lists itself and another node among its children.
C9_Witness ==
    /\ Found("get_all_descendants_by_title")
    /\ InSeq(call.results.node_id, call.results.direct_children)
    /\ call.results.direct_children_count = 2
    /\ call.results.total_descendants_count = 1

(***************************************************************************)
(* C10 as stated: a non-empty result of either query names, as parent_id   *)
(* or node_id, a key of the mapping whose title is target_title, for every *)
(* target_title, the empty string included; a node that is only the target *)
(* of an edge is never the node found.                                     *)
(***************************************************************************)
C10_FoundNodeIsTitledKey ==
    /\ Found("get_children_with_info") =>
          /\ HasKey(ICD11_Hierarchy, call.results.parent_id)
          /\ Lookup(ICD11_Hierarchy, call.results.parent_id).title = call.target
    /\ Found("get_all_descendants_by_title") =>
          /\ HasKey(ICD11_Hierarchy, call.results.node_id)
          /\ Lookup(ICD11_Hierarchy, call.results.node_id).title = call.target

(***************************************************************************)
(* Besides C7, C8 and C10: what the two queries do with a node that carries *)
(* no title attribute. The scan compares .get('title', '') with            *)
(* target_title, so that for target_title = '' a node that is only the     *)
(* target of an edge counts as a match. With "matches" read that way, the  *)
(* result describes the last matching node in graph iteration order and is *)
(* empty exactly when no node matches.                                     *)
(***************************************************************************)
Matching(g, title) == {i \in 1..Len(g.nodes) : NodeTitle(g, g.nodes[i]) = title}

LastMatchWins ==
    /\ Answered("get_children_with_info") =>
          IF Matching(G, call.target) = {} THEN IsEmptyDict(call.results)
          ELSE /\ ~IsEmptyDict(call.results)
               /\ call.results.parent_id = G.nodes[Last(Matching(G, call.target))]
               /\ call.results.parent_title = call.target
    /\ Answered("get_all_descendants_by_title") =>
          IF Matching(G, call.target) = {} THEN IsEmptyDict(call.results)
          ELSE /\ ~IsEmptyDict(call.results)
               /\ call.results.node_id = G.nodes[Last(Matching(G, call.target))]
               /\ call.results.title = call.target

\* Each entry of children describes a direct successor: by its HierarchyNode
\* when it is a key of the mapping, by the defaults 'N/A' and [] when not.
ChildrenInfoFromHierarchy ==
    Found("get_children_with_info") =>
        LET r == call.results
            out == FirstOccurrences(ChildrenOf(r.parent_id))
        IN  /\ Len(r.children) = Len(out)
            /\ \A i \in 1..Len(out) :
                  r.children[i] =
                      IF HasKey(ICD11_Hierarchy, out[i])
                      THEN LET h == Lookup(ICD11_Hierarchy, out[i])
                           IN  [id |-> out[i], title |-> h.title,
                                definition |-> h.def, synonyms |-> h.synonyms]
                      ELSE [id |-> out[i], title |-> "N/A",
                            definition |-> "N/A", synonyms |-> <<>>]

\* A node found that carries no title attribute was found for the empty title.
UntitledFoundOnlyForEmptyTitle ==
    /\ Found("get_children_with_info") =>
          \/ Last(Matching(G, call.target)) \in Titled(G, call.target)
          \/ call.target = ""
    /\ Found("get_all_descendants_by_title") =>
          \/ Last(Matching(G, call.target)) \in Titled(G, call.target)
          \/ call.target = ""

====
